---------------------------- MODULE Spec2Model ----------------------------
(***************************************************************************)
(* Model of storage/innobase/include/buf0types.h: the page identifier      *)
(* page_id_t, the buddy-system size macros, is_checksum_strict() and the   *)
(* page_hash_latch acquire/release dispatch.                               *)
(*                                                                         *)
(* Machine integers are modelled at their real width.  A w-bit unsigned    *)
(* value is a little-endian sequence of 16-bit limbs (index 1 is the least *)
(* significant limb), so uint32_t has 2 limbs and uint64_t / ulint (LP64)  *)
(* have 4.  All arithmetic is modulo 2^w, as in C++.                       *)
(***************************************************************************)
EXTENDS Integers, Sequences, FiniteSets, TLC

VARIABLES
  build,      \* "debug" (ut_ad is checked and aborts) or "release" (ut_ad is a no-op)
  made,       \* the arguments the current page_id_t was constructed from
  hist,       \* the operations applied to the page_id_t so far, with each result
  cfg,        \* startup configuration: the shifts of univ.i and srv_page_size_shift,
              \* and the configured checksum algorithm
  buddy,      \* the buddy constants as derived by the BUF_BUDDY_* macros
  strict,     \* the last is_checksum_strict() query and both overloads' answers
  word,       \* lock word of each latch (readers, writer and updater flags)
  pc,         \* per thread: "idle", or "wait" inside read/write/update_lock_wait
  want,       \* per thread: the latch and mode it is blocked on
  held,       \* per thread: the latches it has acquired and not yet released
  calls       \* the number of acquire calls made so far

vars == <<build, made, hist, cfg, buddy, strict, word, pc, want, held, calls>>

idVars    == <<build, made, hist>>
cfgVars   == <<cfg, buddy, strict>>
latchVars == <<word, pc, want, held, calls>>

---------------------------------------------------------------------------
(* Fixed-width unsigned integers as limb sequences.                        *)

Base == 2^16

Limbs32 == 32 \div 16
Limbs64 == 64 \div 16
\* Width used for the exact (unbounded) arithmetic the claims are stated in;
\* 96 bits hold every sum and shift of 32-bit operands that appears below.
LimbsMath == 96 \div 16

IsWord(w, n) == /\ w \in Seq(0..(Base - 1))
                /\ Len(w) = n

\* The n-limb word holding k, for 0 <= k < 2^31.
FromInt(k, n) == [i \in 1..n |-> IF i = 1 THEN k % Base
                                 ELSE IF i = 2 THEN k \div Base
                                 ELSE 0]

\* The value of a word below 2^31 as an integer.
ToInt(w) == w[1] + (IF Len(w) >= 2 THEN w[2] * Base ELSE 0)

FitsInt(w) == /\ \A i \in 1..Len(w) : i > 2 => w[i] = 0
              /\ (Len(w) >= 2 => w[2] < Base \div 2)

\* Conversion to an n-limb type: truncation (static_cast to a narrower type)
\* or zero extension (promotion to a wider one).
Cast(w, n) == [i \in 1..n |-> IF i <= Len(w) THEN w[i] ELSE 0]

RECURSIVE OrInt(_, _)
OrInt(a, b) == IF a = 0 THEN b
               ELSE IF b = 0 THEN a
               ELSE (IF a % 2 = 1 \/ b % 2 = 1 THEN 1 ELSE 0)
                    + 2 * OrInt(a \div 2, b \div 2)

\* a | b
Or(a, b) == [i \in 1..Len(a) |-> OrInt(a[i], b[i])]

\* ~a
Not(a) == [i \in 1..Len(a) |-> (Base - 1) - a[i]]

\* a << k, the bits shifted out of the top are lost
Shl(a, k) ==
  LET q == k \div 16
      r == k % 16
      limb(i) == IF i >= 1 THEN a[i] ELSE 0
  IN [i \in 1..Len(a) |->
        ((limb(i - q) * 2^r) % Base) + ((limb(i - q - 1) * 2^r) \div Base)]

\* a >> k
Shr(a, k) ==
  LET q == k \div 16
      r == k % 16
      limb(i) == IF i <= Len(a) THEN a[i] ELSE 0
  IN [i \in 1..Len(a) |->
        (limb(i + q) \div 2^r) + ((limb(i + q + 1) % 2^r) * 2^(16 - r))]

RECURSIVE CarryInto(_, _, _)
CarryInto(a, b, i) == IF i = 1 THEN 0
                      ELSE (a[i-1] + b[i-1] + CarryInto(a, b, i - 1)) \div Base

\* a + b modulo 2^w
Add(a, b) == [i \in 1..Len(a) |-> (a[i] + b[i] + CarryInto(a, b, i)) % Base]

RECURSIVE BorrowInto(_, _, _)
BorrowInto(a, b, i) == IF i = 1 THEN 0
                       ELSE IF a[i-1] - b[i-1] - BorrowInto(a, b, i - 1) < 0
                            THEN 1 ELSE 0

\* a - b modulo 2^w
Sub(a, b) == [i \in 1..Len(a) |-> (a[i] - b[i] - BorrowInto(a, b, i)) % Base]

\* a < b, unsigned
Lt(a, b) == \E i \in 1..Len(a) : /\ a[i] < b[i]
                                 /\ \A j \in (i+1)..Len(a) : a[j] = b[j]

Le(a, b) == Lt(a, b) \/ a = b

UINT32_MAX == [i \in 1..Limbs32 |-> Base - 1]

\* The exact natural number a word denotes, in the arithmetic of the claims.
Math(w) == Cast(w, LimbsMath)

---------------------------------------------------------------------------
(* page_id_t: m_id is a uint64_t.  An operation guarded by ut_ad() yields  *)
(* [viol, id]: viol says that the assertion is false (a contract           *)
(* violation, fatal in a debug build), id is the value the statement after *)
(* the assertion computes.                                                 *)

\* page_id_t(ulint space, uint32_t page_no)
page_id_t(space_arg, page_no_arg) ==
  [viol |-> ~Le(space_arg, Cast(UINT32_MAX, Limbs64)),
   id   |-> Or(Shl(Cast(space_arg, Limbs64), 32), Cast(page_no_arg, Limbs64))]

\* Mutant of space(): the shift is forgotten.
space_no_shift(m_id) == Cast(m_id, Limbs32)

\* uint32_t space() const
space(m_id) == Cast(Shr(m_id, 32), Limbs32)

\* uint32_t page_no() const
page_no(m_id) == Cast(m_id, Limbs32)

\* ulonglong raw()
raw(m_id) == m_id

operator_eq(m_id, rhs) == m_id = rhs
operator_ne(m_id, rhs) == m_id # rhs
\* Mutant of operator<: only the low 32 bits are compared.
operator_lt_low32(m_id, rhs) == Lt(Cast(m_id, Limbs32), Cast(rhs, Limbs32))

operator_lt(m_id, rhs) == Lt(m_id, rhs)
operator_gt(m_id, rhs) == Lt(rhs, m_id)
operator_le(m_id, rhs) == ~Lt(rhs, m_id)
operator_ge(m_id, rhs) == ~Lt(m_id, rhs)

\* page_id_t &operator--()
operator_dec(m_id) ==
  [viol |-> page_no(m_id) = FromInt(0, Limbs32),
   id   |-> Sub(m_id, FromInt(1, Limbs64))]

\* Mutant of operator++: the assertion admits the maximum (<= for <).
operator_inc_le(m_id) ==
  [viol |-> ~Le(Cast(m_id, Limbs32), UINT32_MAX),
   id   |-> Add(m_id, FromInt(1, Limbs64))]

\* page_id_t &operator++()
operator_inc(m_id) ==
  [viol |-> ~Lt(page_no(m_id), UINT32_MAX),
   id   |-> Add(m_id, FromInt(1, Limbs64))]

\* page_id_t operator-(uint32_t i) const
operator_minus(m_id, i) ==
  [viol |-> ~Le(i, page_no(m_id)),
   id   |-> Sub(m_id, Cast(i, Limbs64))]

\* page_id_t operator+(uint32_t i) const
operator_plus(m_id, i) ==
  [viol |-> ~Lt(page_no(m_id), Not(i)),
   id   |-> Add(m_id, Cast(i, Limbs64))]

\* ulint fold() const: the operands are uint32_t, so the sum is formed in
\* 32-bit arithmetic and only then widened to ulint.
fold(m_id) ==
  Cast(Add(Add(Shl(space(m_id), 20), space(m_id)), page_no(m_id)), Limbs64)

---------------------------------------------------------------------------
(* Inputs and bounds of the page_id_t specification.                       *)

\* Number of operations applied to one identifier after its construction.
MaxOps == 2

W32(lo, hi) == <<lo, hi>>
W64(lo, hi, lo2, hi2) == <<lo, hi, lo2, hi2>>

\* Tablespace ids passed to the constructor (ulint): 0, 1, 3, 4095, 4096,
\* 0xFFFFFFFF, and 0x100000001, which does not fit in 32 bits.
SpaceInputs ==
  { W64(0, 0, 0, 0), W64(1, 0, 0, 0), W64(3, 0, 0, 0),
    W64(4095, 0, 0, 0), W64(4096, 0, 0, 0),
    W64(Base - 1, Base - 1, 0, 0), W64(1, 0, 1, 0) }

\* Page numbers (uint32_t): 0, 1, 100, 0x10000, 0xFFFFFFFE, 0xFFFFFFFF.
PageInputs ==
  { W32(0, 0), W32(1, 0), W32(100, 0), W32(0, 1),
    W32(Base - 2, Base - 1), W32(Base - 1, Base - 1) }

\* Offsets passed to operator+ and operator- (uint32_t): 0, 1, 0xFFFFFFFF.
OffsetInputs ==
  { W32(0, 0), W32(1, 0), W32(Base - 1, Base - 1) }

\* Right-hand sides of the comparisons: tablespaces 1 and 0xFFFFFFFF with
\* pages 0, 100 and 0xFFFFFFFF.
RhsInputs ==
  { page_id_t(s, p).id :
      s \in { W64(1, 0, 0, 0), W64(Base - 1, Base - 1, 0, 0) },
      p \in { W32(0, 0), W32(100, 0), W32(Base - 1, Base - 1) } }

NoArg == <<>>

Cur == hist[Len(hist)].id

\* A debug build aborts at the first false ut_ad().
Aborted == build = "debug" /\ hist[Len(hist)].viol

CanApply == Len(hist) >= 1 /\ ~Aborted /\ Len(hist) <= MaxOps

Log(op, arg, r, res) ==
  hist' = Append(hist, [op |-> op, arg |-> arg, viol |-> r.viol,
                        id |-> r.id, res |-> res])

InitId ==
  /\ build \in {"debug", "release"}
  /\ \E s \in SpaceInputs, p \in PageInputs :
       made = [space |-> s, page_no |-> p]
  /\ hist = << >>

Construct ==
  /\ hist = << >>
  /\ Log("ctor", NoArg, page_id_t(made.space, made.page_no), NoArg)
  /\ UNCHANGED <<build, made, cfgVars, latchVars>>

Increment ==
  /\ CanApply
  /\ Log("inc", NoArg, operator_inc(Cur), NoArg)
  /\ UNCHANGED <<build, made, cfgVars, latchVars>>

Decrement ==
  /\ CanApply
  /\ Log("dec", NoArg, operator_dec(Cur), NoArg)
  /\ UNCHANGED <<build, made, cfgVars, latchVars>>

Plus(i) ==
  /\ CanApply
  /\ Log("plus", i, operator_plus(Cur, i), NoArg)
  /\ UNCHANGED <<build, made, cfgVars, latchVars>>

Minus(i) ==
  /\ CanApply
  /\ Log("minus", i, operator_minus(Cur, i), NoArg)
  /\ UNCHANGED <<build, made, cfgVars, latchVars>>

Fold ==
  /\ CanApply
  /\ Log("fold", NoArg, [viol |-> FALSE, id |-> Cur], fold(Cur))
  /\ UNCHANGED <<build, made, cfgVars, latchVars>>

Compare(rhs) ==
  /\ CanApply
  /\ Log("cmp", rhs, [viol |-> FALSE, id |-> Cur],
         [eq |-> operator_eq(Cur, rhs), ne |-> operator_ne(Cur, rhs),
          lt |-> operator_lt(Cur, rhs), gt |-> operator_gt(Cur, rhs),
          le |-> operator_le(Cur, rhs), ge |-> operator_ge(Cur, rhs)])
  /\ UNCHANGED <<build, made, cfgVars, latchVars>>

IdleCfg == /\ cfg = [zip_shift_min |-> 0, page_shift_max |-> 0,
                     srv_page_size_shift |-> 0, srv_checksum_algorithm |-> 0]
           /\ buddy = NoArg
           /\ strict = NoArg

IdleLatch == /\ word = <<>>
             /\ pc = <<>>
             /\ want = <<>>
             /\ held = <<>>
             /\ calls = 0

Init == InitId /\ IdleCfg /\ IdleLatch

Next ==
  \/ Construct
  \/ Increment
  \/ Decrement
  \/ \E i \in OffsetInputs : Plus(i)
  \/ \E i \in OffsetInputs : Minus(i)
  \/ Fold
  \/ \E rhs \in RhsInputs : Compare(rhs)

Spec == Init /\ [][Next]_vars

---------------------------------------------------------------------------
(* Startup configuration: the buddy-system macros and is_checksum_strict(). *)
(* UNIV_ZIP_SIZE_SHIFT_MIN, UNIV_PAGE_SIZE_SHIFT_MAX (univ.i) and           *)
(* srv_page_size_shift are read by the macros; they are part of cfg.        *)

\* enum srv_checksum_algorithm_t
SRV_CHECKSUM_ALGORITHM_CRC32 == 0
SRV_CHECKSUM_ALGORITHM_STRICT_CRC32 == 1
SRV_CHECKSUM_ALGORITHM_FULL_CRC32 == 2
SRV_CHECKSUM_ALGORITHM_STRICT_FULL_CRC32 == 3

srv_checksum_algorithm_t ==
  { SRV_CHECKSUM_ALGORITHM_CRC32, SRV_CHECKSUM_ALGORITHM_STRICT_CRC32,
    SRV_CHECKSUM_ALGORITHM_FULL_CRC32,
    SRV_CHECKSUM_ALGORITHM_STRICT_FULL_CRC32 }

\* Mutant of the enum overload: every "strict" variant is reported strict.
is_checksum_strict_enum_all(algo) ==
  algo \in { SRV_CHECKSUM_ALGORITHM_STRICT_CRC32,
             SRV_CHECKSUM_ALGORITHM_STRICT_FULL_CRC32 }

\* inline bool is_checksum_strict(srv_checksum_algorithm_t algo)
is_checksum_strict_enum(algo) == algo = SRV_CHECKSUM_ALGORITHM_STRICT_CRC32

\* inline bool is_checksum_strict(ulint algo)
is_checksum_strict_ulint(algo) == algo = SRV_CHECKSUM_ALGORITHM_STRICT_CRC32

BUF_BUDDY_LOW_SHIFT(c) == c.zip_shift_min

BUF_BUDDY_LOW(c) == Shl(FromInt(1, Limbs32), BUF_BUDDY_LOW_SHIFT(c))

BUF_BUDDY_SIZES(c) == c.srv_page_size_shift - BUF_BUDDY_LOW_SHIFT(c)

BUF_BUDDY_SIZES_MAX(c) == c.page_shift_max - BUF_BUDDY_LOW_SHIFT(c)

\* Mutant of BUF_BUDDY_HIGH: the span of the largest supported page size.
BUF_BUDDY_HIGH_max(c) == Shl(BUF_BUDDY_LOW(c), BUF_BUDDY_SIZES_MAX(c))

BUF_BUDDY_HIGH(c) == Shl(BUF_BUDDY_LOW(c), BUF_BUDDY_SIZES(c))

\* Configurations: the smallest size-class shift, the largest supported page
\* size shift, and a configured page size shift between the two.
ZipShiftMinInputs == {9, 10}
PageShiftMaxInputs == {14, 15, 16}

\* Arguments of the ulint overload: the enum's values and two values past it.
AlgoInputs == 0..(SRV_CHECKSUM_ALGORITHM_STRICT_FULL_CRC32 + 2)

InitCfg ==
  /\ \E lo \in ZipShiftMinInputs, hi \in PageShiftMaxInputs :
       \E s \in lo..hi, a \in srv_checksum_algorithm_t :
         cfg = [zip_shift_min |-> lo, page_shift_max |-> hi,
                srv_page_size_shift |-> s, srv_checksum_algorithm |-> a]
  /\ buddy = NoArg
  /\ strict = NoArg

\* Startup evaluates the macros once.
DeriveBuddy ==
  /\ buddy = NoArg
  /\ buddy' = [low_shift      |-> BUF_BUDDY_LOW_SHIFT(cfg),
               low            |-> BUF_BUDDY_LOW(cfg),
               size_count     |-> BUF_BUDDY_SIZES(cfg),
               size_count_max |-> BUF_BUDDY_SIZES_MAX(cfg),
               high           |-> BUF_BUDDY_HIGH(cfg)]
  /\ UNCHANGED <<cfg, strict, idVars, latchVars>>

\* is_checksum_strict(srv_checksum_algorithm) on the configured algorithm:
\* both overloads are applied to the same value.
QueryConfigured ==
  /\ strict' = [algo     |-> cfg.srv_checksum_algorithm,
                by_enum  |-> is_checksum_strict_enum(cfg.srv_checksum_algorithm),
                by_ulint |-> is_checksum_strict_ulint(cfg.srv_checksum_algorithm)]
  /\ UNCHANGED <<cfg, buddy, idVars, latchVars>>

\* is_checksum_strict(ulint) on an arbitrary integer.
QueryUlint(a) ==
  /\ strict' = [algo     |-> a,
                by_enum  |-> IF a \in srv_checksum_algorithm_t
                             THEN is_checksum_strict_enum(a)
                             ELSE NoArg,
                by_ulint |-> is_checksum_strict_ulint(a)]
  /\ UNCHANGED <<cfg, buddy, idVars, latchVars>>

IdleId == /\ build = "release"
          /\ made = NoArg
          /\ hist = << >>

InitConfig == IdleId /\ InitCfg /\ IdleLatch

NextConfig ==
  \/ DeriveBuddy
  \/ QueryConfigured
  \/ \E a \in AlgoInputs : QueryUlint(a)

SpecConfig == InitConfig /\ [][NextConfig]_vars

\* C9: for every supported page-size shift s (low_shift <= s <= max shift)
\* the derived constants satisfy size_count = s - low_shift,
\* size_count <= size_count_max and high = low << size_count = 2^s; for
\* s = 14 and low_shift = 9 that is size_count = 5 and high = 16384.
C9_BuddyConstants ==
  buddy # NoArg =>
    /\ buddy.low_shift = cfg.zip_shift_min
    /\ buddy.size_count = cfg.srv_page_size_shift - buddy.low_shift
    /\ buddy.size_count <= buddy.size_count_max
    /\ FitsInt(buddy.low) /\ ToInt(buddy.low) = 2^buddy.low_shift
    /\ FitsInt(buddy.high)
    /\ ToInt(buddy.high) = ToInt(buddy.low) * 2^buddy.size_count
    /\ ToInt(buddy.high) = 2^cfg.srv_page_size_shift
    /\ (cfg.srv_page_size_shift = 14 /\ buddy.low_shift = 9) =>
         (buddy.size_count = 5 /\ ToInt(buddy.high) = 16384)

\* C9 witness: the constants were derived for page-size shift 14 with
\* low_shift 9, below the largest supported page size.
C9_Witness ==
  /\ buddy # NoArg
  /\ cfg.srv_page_size_shift = 14
  /\ cfg.zip_shift_min = 9
  /\ cfg.page_shift_max = 16
  /\ buddy.size_count = 5
  /\ buddy.high = FromInt(16384, Limbs32)

\* C10: is_checksum_strict() is true for STRICT_CRC32 and false for CRC32,
\* FULL_CRC32 and STRICT_FULL_CRC32, and the enum-typed and integer-typed
\* overloads agree on every algorithm value.
C10_ChecksumStrict ==
  (strict # NoArg /\ strict.algo \in srv_checksum_algorithm_t) =>
    /\ strict.by_enum = (strict.algo = SRV_CHECKSUM_ALGORITHM_STRICT_CRC32)
    /\ strict.by_ulint = strict.by_enum
    /\ strict.algo \in { SRV_CHECKSUM_ALGORITHM_CRC32,
                         SRV_CHECKSUM_ALGORITHM_FULL_CRC32,
                         SRV_CHECKSUM_ALGORITHM_STRICT_FULL_CRC32 }
         => (~strict.by_enum /\ ~strict.by_ulint)

\* C10 witness: STRICT_FULL_CRC32 was queried and both overloads said "not
\* strict".
C10_Witness ==
  /\ strict # NoArg
  /\ strict.algo = SRV_CHECKSUM_ALGORITHM_STRICT_FULL_CRC32
  /\ strict.by_enum = FALSE
  /\ strict.by_ulint = FALSE

---------------------------------------------------------------------------
(* page_hash_latch.  The class adds acquire<exclusive>() and               *)
(* release<exclusive>() to rw_lock; rw_lock itself, read_lock() and        *)
(* write_lock() are defined outside this header.  The lock word and the    *)
(* try/unlock steps below follow the latch's documented behaviour: a       *)
(* reader count with a writer and an updater flag, a compare-and-swap fast *)
(* path, and a wait loop that retries it.                                  *)

\* enum rw_lock_type_t
RW_S_LATCH == 1
RW_X_LATCH == 2
RW_SX_LATCH == 4
RW_NO_LATCH == 8

Unlocked == [readers |-> 0, writer |-> FALSE, updater |-> FALSE]

\* One attempt to take the lock word: ok says whether it was taken, w is the
\* word afterwards.
read_trylock(w) ==
  [ok |-> ~w.writer, w |-> [w EXCEPT !.readers = @ + 1]]

write_trylock(w) ==
  [ok |-> w = Unlocked, w |-> [w EXCEPT !.writer = TRUE]]

update_trylock(w) ==
  [ok |-> ~w.writer /\ ~w.updater, w |-> [w EXCEPT !.updater = TRUE]]

read_unlock(w) == [w EXCEPT !.readers = @ - 1]
write_unlock(w) == [w EXCEPT !.writer = FALSE]
update_unlock(w) == [w EXCEPT !.updater = FALSE]

\* inline void read_lock() / write_lock(): the fast path; when it fails the
\* caller is in read_lock_wait() / write_lock_wait() until a retry succeeds.
read_lock(w) == read_trylock(w)
write_lock(w) == write_trylock(w)

\* Mutant of acquire<exclusive>(): the branch is lost, read_lock() is called.
acquire_read_only(exclusive, w) == read_lock(w)

\* template<bool exclusive> void acquire()
acquire(exclusive, w) == IF exclusive THEN write_lock(w) ELSE read_lock(w)

\* Mutant of release<exclusive>(): the branch is lost, read_unlock() is called.
release_read_only(exclusive, w) == read_unlock(w)

\* template<bool exclusive> void release()
release(exclusive, w) == IF exclusive THEN write_unlock(w) ELSE read_unlock(w)

\* The mode a caller of acquire<exclusive>() holds once the call returns.
ModeOf(exclusive) == IF exclusive THEN RW_X_LATCH ELSE RW_S_LATCH

\* The attempt a thread blocked for mode m repeats.
TryMode(m, w) == IF m = RW_SX_LATCH THEN update_trylock(w)
                 ELSE acquire(m = RW_X_LATCH, w)

NoRequest == [latch |-> NoArg, mode |-> RW_NO_LATCH]

Threads == DOMAIN pc
Latches == DOMAIN word

\* Thread t asks for latch l in mode m: granted at once on the fast path,
\* otherwise t blocks in the wait loop.
Request(t, l, m) ==
  /\ pc[t] = "idle"
  /\ held[t][l] = RW_NO_LATCH
  /\ LET r == TryMode(m, word[l])
     IN IF r.ok
        THEN /\ word' = [word EXCEPT ![l] = r.w]
             /\ held' = [held EXCEPT ![t][l] = m]
             /\ want' = [want EXCEPT ![t] = NoRequest]
             /\ pc' = pc
        ELSE /\ pc' = [pc EXCEPT ![t] = "wait"]
             /\ want' = [want EXCEPT ![t] = [latch |-> l, mode |-> m]]
             /\ UNCHANGED <<word, held>>
  /\ UNCHANGED <<idVars, cfgVars>>

\* read_lock_wait() / write_lock_wait(): a retry that succeeds ends the wait.
\* want[t] keeps the request that had to wait until t's next request or
\* release.
LockWait(t) ==
  /\ pc[t] = "wait"
  /\ LET l == want[t].latch
         r == TryMode(want[t].mode, word[l])
     IN /\ r.ok
        /\ word' = [word EXCEPT ![l] = r.w]
        /\ held' = [held EXCEPT ![t][l] = want[t].mode]
  /\ pc' = [pc EXCEPT ![t] = "idle"]
  /\ UNCHANGED <<want, calls, idVars, cfgVars>>

\* acquire<exclusive>() on latch l
Acquire(t, l, exclusive) == Request(t, l, ModeOf(exclusive))

\* release<exclusive>() on latch l, paired with the acquire that took it
Release(t, l) ==
  /\ pc[t] = "idle"
  /\ held[t][l] \in {RW_S_LATCH, RW_X_LATCH}
  /\ word' = [word EXCEPT ![l] = release(held[t][l] = RW_X_LATCH, @)]
  /\ held' = [held EXCEPT ![t][l] = RW_NO_LATCH]
  /\ want' = [want EXCEPT ![t] = NoRequest]
  /\ UNCHANGED <<pc, calls, idVars, cfgVars>>

\* Acquisition and release of the shared-exclusive (update) mode.
UpdateLock(t, l) == Request(t, l, RW_SX_LATCH)

UpdateUnlock(t, l) ==
  /\ pc[t] = "idle"
  /\ held[t][l] = RW_SX_LATCH
  /\ word' = [word EXCEPT ![l] = update_unlock(@)]
  /\ held' = [held EXCEPT ![t][l] = RW_NO_LATCH]
  /\ want' = [want EXCEPT ![t] = NoRequest]
  /\ UNCHANGED <<pc, calls, idVars, cfgVars>>

\* Number of threads using the one latch of SpecLatch, and the number of
\* acquire calls they make in all.
NThreads == 3
MaxAcquires == 4

ThreadIds == 1..NThreads

\* The latch of the frame of page (5, 10).
TheLatch ==
  <<"frame", page_id_t(FromInt(5, Limbs64), FromInt(10, Limbs32)).id>>

InitThreads(T, L) ==
  /\ word = [l \in L |-> Unlocked]
  /\ pc = [t \in T |-> "idle"]
  /\ want = [t \in T |-> NoRequest]
  /\ held = [t \in T |-> [l \in L |-> RW_NO_LATCH]]
  /\ calls = 0

InitLatch == IdleId /\ IdleCfg /\ InitThreads(ThreadIds, {TheLatch})

AcquireLatch(t, exclusive) ==
  /\ calls < MaxAcquires
  /\ Acquire(t, TheLatch, exclusive)
  /\ calls' = calls + 1

UpdateLatch(t) ==
  /\ calls < MaxAcquires
  /\ UpdateLock(t, TheLatch)
  /\ calls' = calls + 1

NextLatch ==
  \/ \E t \in ThreadIds, x \in BOOLEAN : AcquireLatch(t, x)
  \/ \E t \in ThreadIds : UpdateLatch(t)
  \/ \E t \in ThreadIds : LockWait(t)
  \/ \E t \in ThreadIds : Release(t, TheLatch)
  \/ \E t \in ThreadIds : UpdateUnlock(t, TheLatch)

SpecLatch == InitLatch /\ [][NextLatch]_vars

\* Every holder eventually releases, and a blocked thread whose retry can
\* succeed eventually runs it.
FairLatch ==
  \A t \in ThreadIds :
    /\ WF_vars(Release(t, TheLatch))
    /\ WF_vars(UpdateUnlock(t, TheLatch))
    /\ WF_vars(LockWait(t))

SpecLatchFair == InitLatch /\ [][NextLatch]_vars /\ FairLatch

Holders(l, m) == {t \in Threads : held[t][l] = m}

\* C1: after any interleaving of acquires and releases the holders of a latch
\* satisfy the compatibility matrix: at most one X holder, and no S or SX
\* holder while X is held; at most one SX holder; S holders in any number,
\* also beside one SX holder.
C1_Compatible ==
  \A l \in Latches :
    /\ Cardinality(Holders(l, RW_X_LATCH)) <= 1
    /\ Cardinality(Holders(l, RW_SX_LATCH)) <= 1
    /\ Holders(l, RW_X_LATCH) # {} =>
         (Holders(l, RW_S_LATCH) = {} /\ Holders(l, RW_SX_LATCH) = {})

\* C1 witness: two S holders beside one SX holder.
C1_Witness ==
  /\ Cardinality(Holders(TheLatch, RW_S_LATCH)) >= 2
  /\ Cardinality(Holders(TheLatch, RW_SX_LATCH)) = 1

OtherHolders(t, l) == {u \in ThreadIds \ {t} : held[u][l] # RW_NO_LATCH}

WaitsFor(t, m) == pc[t] = "wait" /\ want[t].mode = m

---------------------------------------------------------------------------
(* Several latches: one per hash bucket and one per cached frame.  A page  *)
(* is looked up in the bucket its fold() value selects.  The threads       *)
(* follow the ordering rule: a frame's latch is requested only by a thread *)
(* that holds the latch of the frame's bucket, and never while the thread  *)
(* holds the latch of a frame with a larger identifier.                    *)

\* Hash buckets, and acquire calls made in all, in SpecOrder.
NBuckets == 2
MaxOrderCalls == 6

\* The threads of SpecOrder.
OrderThreadIds == {1, 2}

\* Cached pages: (5, 10) and (7, 10).
FrameIds ==
  { page_id_t(FromInt(5, Limbs64), FromInt(10, Limbs32)).id,
    page_id_t(FromInt(7, Limbs64), FromInt(10, Limbs32)).id }

BucketLatch(b) == <<"bucket", b>>
FrameLatch(id) == <<"frame", id>>

\* The bucket a page identifier hashes to.
BucketOf(id) == ToInt(Cast(fold(id), Limbs32)) % NBuckets

OrderLatches == {BucketLatch(b) : b \in 0..(NBuckets - 1)}
                  \cup {FrameLatch(id) : id \in FrameIds}

HeldFrames(t) == {id \in FrameIds : held[t][FrameLatch(id)] # RW_NO_LATCH}

AcquireBucket(t, b, exclusive) ==
  /\ calls < MaxOrderCalls
  /\ Acquire(t, BucketLatch(b), exclusive)
  /\ calls' = calls + 1

AcquireFrame(t, id, exclusive) ==
  /\ held[t][BucketLatch(BucketOf(id))] # RW_NO_LATCH
  /\ \A g \in HeldFrames(t) : ~operator_lt(id, g)
  /\ calls < MaxOrderCalls
  /\ Acquire(t, FrameLatch(id), exclusive)
  /\ calls' = calls + 1

ReleaseAny(t, l) == Release(t, l)

InitOrder == IdleId /\ IdleCfg /\ InitThreads(OrderThreadIds, OrderLatches)

NextOrder ==
  \/ \E t \in OrderThreadIds, b \in 0..(NBuckets - 1), x \in BOOLEAN :
       AcquireBucket(t, b, x)
  \/ \E t \in OrderThreadIds, id \in FrameIds, x \in BOOLEAN :
       AcquireFrame(t, id, x)
  \/ \E t \in OrderThreadIds : LockWait(t)
  \/ \E t \in OrderThreadIds, l \in OrderLatches : ReleaseAny(t, l)

SpecOrder == InitOrder /\ [][NextOrder]_vars

\* Thread u holds the latch thread t is blocked on, in a mode that excludes
\* the one t asks for.
Blocks(u, t) ==
  /\ u # t
  /\ pc[t] = "wait"
  /\ LET h == held[u][want[t].latch]
     IN /\ h # RW_NO_LATCH
        /\ (h = RW_X_LATCH \/ want[t].mode = RW_X_LATCH)

\* A set of threads each blocked on a latch held by another thread of the set.
Deadlocked(D) == D # {} /\ \A t \in D : \E u \in D : Blocks(u, t)

IsBucket(l) == l[1] = "bucket"

\* C3 (as claimed): with every frame latch requested under its bucket's
\* latch and frame latches requested in ascending identifier order, no
\* reachable state holds a cycle of threads each blocked on a latch held by
\* the next.
C3_NoDeadlock == \A D \in SUBSET Threads : ~Deadlocked(D)

\* C3 (amended): under the same rule, every such cycle contains a thread that
\* requested a bucket latch while it held another latch; so if no thread
\* requests a bucket latch while holding a latch, no reachable state is a
\* deadlock.
C3_DeadlockNeedsBucketRequest ==
  \A D \in SUBSET Threads :
    Deadlocked(D) =>
      \E t \in D : /\ IsBucket(want[t].latch)
                   /\ \E l \in Latches : held[t][l] # RW_NO_LATCH

\* C3 witness: a thread that holds its bucket's latch and the latch of one
\* frame is blocked on the latch of a frame with a larger identifier, which
\* another thread holds exclusively; no thread waits for a bucket latch.
C3_Witness ==
  /\ Latches = OrderLatches
  /\ \E t, u \in Threads : \E g, f \in FrameIds :
       /\ pc[t] = "wait" /\ want[t].latch = FrameLatch(f)
       /\ held[t][FrameLatch(g)] # RW_NO_LATCH
       /\ operator_lt(g, f)
       /\ held[u][FrameLatch(f)] = RW_X_LATCH
       /\ pc[u] = "idle"
  /\ \A v \in Threads : ~(pc[v] = "wait" /\ IsBucket(want[v].latch))

---------------------------------------------------------------------------
(* Claims about page_id_t, checked under Spec.                             *)

\* The operation applied last (every earlier one was the last one of an
\* earlier state), and the identifier it was applied to.
Entries == IF Len(hist) >= 2 THEN {Len(hist)} ELSE {}
Before(i) == hist[i-1].id
One == FromInt(1, LimbsMath)

\* C4: for every tablespace and page_no in [0, 2^32-1], the identifier built
\* by the constructor returns exactly that tablespace from space() and
\* exactly that page number from page_no().
C4_RoundTrip ==
  (Len(hist) >= 1 /\ Le(made.space, Cast(UINT32_MAX, Limbs64))) =>
    /\ Math(space(hist[1].id)) = Math(made.space)
    /\ Math(page_no(hist[1].id)) = Math(made.page_no)

\* C4 witness: an identifier was built from tablespace 0xFFFFFFFF and page 1,
\* where every bit of one field sits next to the other field.
C4_Witness ==
  /\ Len(hist) >= 1
  /\ hist[1].op = "ctor"
  /\ made.space = W64(Base - 1, Base - 1, 0, 0)
  /\ made.page_no = W32(1, 0)
  /\ space(hist[1].id) = UINT32_MAX

LexLess(a, b) == \/ Lt(space(a), space(b))
                 \/ space(a) = space(b) /\ Lt(page_no(a), page_no(b))

SameFields(a, b) == space(a) = space(b) /\ page_no(a) = page_no(b)

\* C5: the six comparison operators are exactly the lexicographic total order
\* on (tablespace, page_no): a < b iff a's tablespace is smaller, or the
\* tablespaces are equal and a's page number is smaller; the other operators
\* are the ones that order induces.
C5_LexOrder ==
  \A i \in Entries :
    hist[i].op = "cmp" =>
      LET a == Before(i)
          b == hist[i].arg
          r == hist[i].res
      IN /\ r.lt = LexLess(a, b)
         /\ r.gt = LexLess(b, a)
         /\ r.eq = SameFields(a, b)
         /\ r.ne = ~SameFields(a, b)
         /\ r.le = (LexLess(a, b) \/ SameFields(a, b))
         /\ r.ge = (LexLess(b, a) \/ SameFields(a, b))
         /\ (r.lt \/ r.eq \/ r.gt)
         /\ (Lt(space(a), space(b)) => r.lt)

\* C5 witness: a comparison whose left side has the smaller tablespace but
\* the larger page number answered "less".
C5_Witness ==
  \E i \in Entries :
    /\ hist[i].op = "cmp"
    /\ Lt(space(Before(i)), space(hist[i].arg))
    /\ Lt(page_no(hist[i].arg), page_no(Before(i)))
    /\ hist[i].res.lt

\* C6: operator++ is a contract violation exactly at page_no 0xFFFFFFFF and
\* operator-- exactly at page_no 0; otherwise they change page_no by exactly
\* +1 / -1 and keep the tablespace, and ++ followed by -- gives back the
\* identifier whenever page_no < 0xFFFFFFFF.
C6_NextPrev ==
  \A i \in Entries :
    LET a == Before(i)
        e == hist[i]
    IN /\ e.op = "inc" =>
            /\ e.viol = (page_no(a) = UINT32_MAX)
            /\ ~e.viol => /\ space(e.id) = space(a)
                          /\ Math(page_no(e.id)) = Add(Math(page_no(a)), One)
       /\ e.op = "dec" =>
            /\ e.viol = (page_no(a) = FromInt(0, Limbs32))
            /\ ~e.viol => /\ space(e.id) = space(a)
                          /\ Add(Math(page_no(e.id)), One) = Math(page_no(a))
       /\ (i >= 3 /\ hist[i-1].op = "inc" /\ e.op = "dec"
             /\ page_no(hist[i-2].id) # UINT32_MAX) =>
            /\ ~e.viol
            /\ e.id = hist[i-2].id

\* C6 witness: ++ took an identifier from page 0xFFFFFFFE to 0xFFFFFFFF, and
\* -- brought it back.
C6_Witness ==
  /\ Len(hist) = 3
  /\ hist[2].op = "inc" /\ hist[3].op = "dec"
  /\ ~hist[2].viol /\ ~hist[3].viol
  /\ page_no(hist[1].id) = W32(Base - 2, Base - 1)
  /\ page_no(hist[2].id) = UINT32_MAX

\* C7 (as claimed): operator+ is a contract violation exactly when
\* page_no + n exceeds 0xFFFFFFFF and operator- exactly when n > page_no;
\* otherwise the tablespace is kept and page_no moves by n; +1 and -1 are
\* refused on exactly the identifiers on which ++ and -- are.
C7_AddSubContract ==
  \A i \in Entries :
    LET a == Before(i)
        e == hist[i]
        sum == Add(Math(page_no(a)), Math(e.arg))
    IN /\ e.op = "plus" =>
            /\ e.viol = Lt(Math(UINT32_MAX), sum)
            /\ ~e.viol => /\ space(e.id) = space(a)
                          /\ Math(page_no(e.id)) = sum
            /\ e.arg = FromInt(1, Limbs32) => e.viol = operator_inc(a).viol
       /\ e.op = "minus" =>
            /\ e.viol = Lt(page_no(a), e.arg)
            /\ ~e.viol => /\ space(e.id) = space(a)
                          /\ Add(Math(page_no(e.id)), Math(e.arg))
                               = Math(page_no(a))
            /\ e.arg = FromInt(1, Limbs32) => e.viol = operator_dec(a).viol

\* C8 (as claimed): fold() equals (tablespace << 20) + tablespace + page_no
\* for every identifier, and depends on (tablespace, page_no) only.
C8_FoldValue ==
  \A i \in Entries :
    hist[i].op = "fold" =>
      LET a == Before(i)
          sp == Math(space(a))
      IN /\ Math(hist[i].res) = Add(Add(Shl(sp, 20), sp), Math(page_no(a)))
         /\ hist[i].res
              = fold(page_id_t(Cast(space(a), Limbs64), page_no(a)).id)

===========================================================================
